---- MODULE Spec2Model ----
(***************************************************************************)
(* A model of proxy.py: the /chat/completions handler of the AFFiNE ->     *)
(* LLM reverse proxy.  The process-wide configuration is loaded once from  *)
(* the environment; every inbound request is parsed, rewritten (model,     *)
(* system prompt), forwarded upstream and the upstream chunks are yielded  *)
(* back to the caller one at a time.                                       *)
(*                                                                         *)
(* Python values: a dict is a function on its keys (a record), a list is a *)
(* sequence, a str is a string, None is the reserved string below.         *)
(***************************************************************************)
EXTENDS Integers, Sequences, FiniteSets, TLC

\* Python's None (also JSON null): a value distinct from every str drawn below.
None == "<None>"

\* ------------------------------------------------------------------ bounds
\* Most chunks one upstream response is cut into.
MaxChunks == 2
\* Most messages that follow the first message of an inbound body.
MaxRest == 1

\* The requests that may be in flight together.
Requests == {1, 2}

\* The i-th text chunk of the upstream's response to request r: every chunk of
\* every response is a different text, so that a chunk that is dropped, repeated,
\* reordered or handed to the wrong caller shows.
Digits == <<"1", "2", "3", "4", "5", "6", "7", "8", "9">>
Chunk(r, i) == "data: r" \o Digits[r] \o "c" \o Digits[i] \o "\n\n"

\* ------------------------------------------------------- python helpers
\* `x and x != ""` (lines 79, 84, 91): None and "" are both falsy.
Truthy(x) == x # None /\ x # ""

\* d[k] = v on a dict: the key is added when absent, replaced when present.
SetKey(d, k, v) == [x \in (DOMAIN d) \cup {k} |-> IF x = k THEN v ELSE d[x]]

\* The outcome of a step that may raise: ok with the value, or the fault.
Ok(v) == [ok |-> TRUE, value |-> v]
Raise == [ok |-> FALSE, value |-> <<>>]

IsPrefix(s, t) == Len(s) <= Len(t) /\ \A i \in 1..Len(s) : s[i] = t[i]

\* ------------------------------------------------------------ configuration
\* ApiConfig(...) at import (lines 11-25).  llm_api_endpoint must be an http(s)
\* URL in every pydantic; default_model is annotated `str = None` and is passed
\* os.getenv("DEFAULT_MODEL") explicitly: pydantic 1 takes the None default as
\* making the field Optional, pydantic 2 rejects None for `str` (strict).  The
\* three Optional[str] fields take None.  A rejected config raises at import:
\* the process never serves.
HttpUrls == {"http://llm:8080/v1/chat/completions"}

ApiConfigValid(env, strict) ==
    /\ env.LLM_API_ENDPOINT \in HttpUrls
    /\ (strict => env.DEFAULT_MODEL # None)

\* The environments the process may be started in (os.getenv: None when unset).
Envs ==
    [LLM_API_ENDPOINT : {None, "llm:8080"} \cup HttpUrls,
     DEFAULT_MODEL : {None, "", "llama3"},
     API_KEY : {None, "", "secret"},
     OVERWRITE_SYSTEM_PROMPT : {None, "", "X"},
     APPEND_SYSTEM_PROMPT : {None, "", "Y"}]

\* A few environments, for the runs with several requests in flight.
FewEnvs ==
    {e \in Envs : /\ e.LLM_API_ENDPOINT \in HttpUrls
                  /\ e.DEFAULT_MODEL = "llama3"
                  /\ e.API_KEY = "secret"
                  /\ e.OVERWRITE_SYSTEM_PROMPT \in {None, "X"}
                  /\ e.APPEND_SYSTEM_PROMPT \in {None, "Y"}}

\* ------------------------------------------------------------ inbound bodies
\* A message is a dict with, possibly, a role and a content.
Message(role, content) ==
    LET r == IF role = None THEN <<>> ELSE [role |-> role]
    IN  IF content = None THEN r ELSE SetKey(r, "content", content)

FirstMessages == {Message(r, c) : r \in {None, "system", "user"}, c \in {None, "old"}}

\* The messages after the first one: a prefix of this conversation.
Conversation ==
    <<[role |-> "user", content |-> "hi"], [role |-> "assistant", content |-> "yo"],
      [role |-> "user", content |-> "bye"]>>

Rests == {SubSeq(Conversation, 1, n) : n \in 0..MaxRest}

MessageLists == {<<>>} \cup {<<m>> \o rest : m \in FirstMessages, rest \in Rests}

\* The parsed JSON objects a client may send: `stream` always, `model` and
\* `messages` each present or absent.
Dicts ==
    LET base == [stream |-> TRUE]
        withModel == {base, SetKey(base, "model", "gpt-4")}
    IN  withModel \cup {SetKey(d, "messages", ms) : d \in withModel, ms \in MessageLists}

\* A raw request body: JSON text that parses to `value`, or text that does not parse.
NotJson == [wellformed |-> FALSE, value |-> <<>>]
Bodies == {NotJson} \cup {[wellformed |-> TRUE, value |-> d] : d \in Dicts}

\* A few bodies, for the runs with several requests in flight.
FewBodies ==
    {NotJson,
     [wellformed |-> TRUE,
      value |-> [stream |-> TRUE, model |-> "gpt-4",
                 messages |-> <<Message("system", "old"), Conversation[1]>>]],
     [wellformed |-> TRUE,
      value |-> [stream |-> TRUE, messages |-> <<Message("user", "old")>>]]}

\* ------------------------------------------------------------------ state
VARIABLES
    serving,                  \* the module was imported and uvicorn runs
    API_ENDPOINT, MODEL, API_KEY, OVERWRITE_SYSTEM_PROMPT, APPEND_SYSTEM_PROMPT,
    pc,                       \* where each request's handling stands
    inbound,                  \* the raw body each caller sent
    incoming_data,            \* the handler's parsed (and rewritten) dict
    status,                   \* the HTTP status sent to the caller (0: none yet)
    upstream_requests,        \* the requests opened upstream for each inbound one
    upstream,                 \* the upstream side: none, connecting, open, eof, fault
    wire,                     \* the chunks the upstream has sent so far
    received,                 \* the chunks aiter_text() has handed to the generator
    delivered                 \* the chunks yielded to the caller

config == <<serving, API_ENDPOINT, MODEL, API_KEY, OVERWRITE_SYSTEM_PROMPT,
            APPEND_SYSTEM_PROMPT>>
vars == <<serving, API_ENDPOINT, MODEL, API_KEY, OVERWRITE_SYSTEM_PROMPT,
          APPEND_SYSTEM_PROMPT, pc, inbound, incoming_data, status,
          upstream_requests, upstream, wire, received, delivered>>

\* Everything that belongs to request r.
RequestState(r) ==
    <<pc[r], inbound[r], incoming_data[r], status[r], upstream_requests[r],
      upstream[r], wire[r], received[r], delivered[r]>>

\* ------------------------------------------------------------- the rewrite
\* Lines 77-78 without the assignment: the client's model is kept.
RewriteModelKeep(d) == d

\* Lines 77-78: the model field is replaced by MODEL when the body has one.
RewriteModel(d) ==
    IF "model" \in DOMAIN d THEN SetKey(d, "model", MODEL) ELSE d

\* Lines 80-83: the overwrite branch.  Indexing raises KeyError / IndexError when
\* `messages`, its first element or that element's role is missing.
OverwritePrompt(d) ==
    IF "messages" \notin DOMAIN d THEN Raise
    ELSE IF Len(d["messages"]) = 0 THEN Raise
    ELSE IF "role" \notin DOMAIN d["messages"][1] THEN Raise
    ELSE IF d["messages"][1]["role"] = "system" THEN
        Ok(SetKey(d, "messages",
                  [d["messages"] EXCEPT
                      ![1] = SetKey(@, "content", OVERWRITE_SYSTEM_PROMPT)]))
    ELSE
        Ok(SetKey(d, "messages",
                  <<[role |-> "system", content |-> OVERWRITE_SYSTEM_PROMPT]>>
                      \o d["messages"]))

\* A validating variant of line 85: a body without a first message passes through.
AppendPromptLenient(d) ==
    IF "messages" \notin DOMAIN d THEN Ok(d)
    ELSE IF Len(d["messages"]) = 0 THEN Ok(d)
    ELSE IF "content" \notin DOMAIN d["messages"][1] THEN Raise
    ELSE
        Ok(SetKey(d, "messages",
                  [d["messages"] EXCEPT
                      ![1] = SetKey(@, "content",
                                    @["content"] \o "\\n" \o APPEND_SYSTEM_PROMPT)]))

\* Line 85: the append branch.  The right-hand side is read first, so a missing
\* `messages`, first element or content raises.  '\\n' in the source is a
\* backslash followed by the letter n, not a newline.
AppendPrompt(d) ==
    IF "messages" \notin DOMAIN d THEN Raise
    ELSE IF Len(d["messages"]) = 0 THEN Raise
    ELSE IF "content" \notin DOMAIN d["messages"][1] THEN Raise
    ELSE
        Ok(SetKey(d, "messages",
                  [d["messages"] EXCEPT
                      ![1] = SetKey(@, "content",
                                    @["content"] \o "\\n" \o APPEND_SYSTEM_PROMPT)]))

\* Lines 79-85 with `if` in place of `elif`: the append follows the overwrite.
RewritePromptBoth(d) ==
    IF Truthy(OVERWRITE_SYSTEM_PROMPT) THEN
        IF OverwritePrompt(d).ok /\ Truthy(APPEND_SYSTEM_PROMPT)
        THEN AppendPrompt(OverwritePrompt(d).value)
        ELSE OverwritePrompt(d)
    ELSE IF Truthy(APPEND_SYSTEM_PROMPT) THEN AppendPrompt(d)
    ELSE Ok(d)

\* Lines 79-85: the system prompt: overwrite, else append, else nothing.
RewritePrompt(d) ==
    IF Truthy(OVERWRITE_SYSTEM_PROMPT) THEN OverwritePrompt(d)
    ELSE IF Truthy(APPEND_SYSTEM_PROMPT) THEN AppendPrompt(d)
    ELSE Ok(d)

\* Line 74: request.json() raises on text that is not JSON.
JsonLoads(raw) == IF raw.wellformed THEN Ok(raw.value) ELSE Raise

\* Lines 74-85 as one result: the dict handed to proxy_stream, or the fault.
Rewritten(raw) ==
    IF JsonLoads(raw).ok THEN RewritePrompt(RewriteModel(JsonLoads(raw).value))
    ELSE Raise

\* Lines 90-92 without the test of API_KEY.
HeadersAlways == [Authorization |-> "Bearer " \o API_KEY]

\* Lines 90-92: the headers of the upstream request.
Headers ==
    IF Truthy(API_KEY) THEN [Authorization |-> "Bearer " \o API_KEY] ELSE <<>>

\* Line 94 with incoming_data as a module global that the first request fills.
UpstreamRequestShared(r) ==
    [method |-> "POST", url |-> API_ENDPOINT,
     json |-> IF incoming_data[1] # <<>> THEN incoming_data[1] ELSE incoming_data[r],
     headers |-> Headers]

\* Line 94: the upstream request of request r.
UpstreamRequest(r) ==
    [method |-> "POST", url |-> API_ENDPOINT, json |-> incoming_data[r],
     headers |-> Headers]

\* Line 95: the chunk aiter_text() hands over next: the first one not yet read.
NextChunk(r) == wire[r][Len(received[r]) + 1]

\* Line 98 yielding the first chunk read again.
YieldedFirst(r) == <<received[r][1]>>

\* Line 98: what the generator yields: the chunk it just read.
Yielded(r) == <<received[r][Len(received[r])]>>

\* --------------------------------------------------------------------- Init
\* Lines 19-35: the configuration is validated and copied into the globals.
Start(env, strict) ==
    /\ serving = ApiConfigValid(env, strict)
    /\ API_ENDPOINT = IF ApiConfigValid(env, strict) THEN env.LLM_API_ENDPOINT ELSE None
    /\ MODEL = IF ApiConfigValid(env, strict) THEN env.DEFAULT_MODEL ELSE None
    /\ API_KEY = IF ApiConfigValid(env, strict) THEN env.API_KEY ELSE None
    /\ OVERWRITE_SYSTEM_PROMPT =
           IF ApiConfigValid(env, strict) THEN env.OVERWRITE_SYSTEM_PROMPT ELSE None
    /\ APPEND_SYSTEM_PROMPT =
           IF ApiConfigValid(env, strict) THEN env.APPEND_SYSTEM_PROMPT ELSE None

NoRequests ==
    /\ pc = [r \in Requests |-> "idle"]
    /\ inbound = [r \in Requests |-> <<>>]
    /\ incoming_data = [r \in Requests |-> <<>>]
    /\ status = [r \in Requests |-> 0]
    /\ upstream_requests = [r \in Requests |-> <<>>]
    /\ upstream = [r \in Requests |-> "none"]
    /\ wire = [r \in Requests |-> <<>>]
    /\ received = [r \in Requests |-> <<>>]
    /\ delivered = [r \in Requests |-> <<>>]

Init == (\E env \in FewEnvs, strict \in BOOLEAN : Start(env, strict)) /\ NoRequests

InitRewrite == (\E env \in Envs, strict \in BOOLEAN : Start(env, strict)) /\ NoRequests

\* ------------------------------------------------------------------ actions
\* A caller POSTs a body to /chat/completions: the handler starts and awaits
\* the body (line 74).
Arrive(r, raw) ==
    /\ serving
    /\ pc[r] = "idle"
    /\ pc' = [pc EXCEPT ![r] = "json"]
    /\ inbound' = [inbound EXCEPT ![r] = raw]
    /\ UNCHANGED <<config, incoming_data, status, upstream_requests, upstream, wire,
                   received, delivered>>

\* Lines 74-101, which run without suspension once the body is read: parse,
\* rewrite, return the StreamingResponse (200 and the headers go out before the
\* generator is first resumed).  A fault is the framework's 500.
handle_chat_completions(r) ==
    /\ pc[r] = "json"
    /\ IF Rewritten(inbound[r]).ok
       THEN /\ incoming_data' = [incoming_data EXCEPT ![r] = Rewritten(inbound[r]).value]
            /\ pc' = [pc EXCEPT ![r] = "respond"]
            /\ status' = [status EXCEPT ![r] = 200]
       ELSE /\ pc' = [pc EXCEPT ![r] = "failed"]
            /\ status' = [status EXCEPT ![r] = 500]
            /\ UNCHANGED incoming_data
    /\ UNCHANGED <<config, inbound, upstream_requests, upstream, wire, received,
                   delivered>>

\* Lines 89-94: the generator's first resumption opens the upstream request.
proxy_stream(r) ==
    /\ pc[r] = "respond"
    /\ upstream_requests' =
           [upstream_requests EXCEPT ![r] = Append(@, UpstreamRequest(r))]
    /\ upstream' = [upstream EXCEPT ![r] = "connecting"]
    /\ pc' = [pc EXCEPT ![r] = "connecting"]
    /\ UNCHANGED <<config, inbound, incoming_data, status, wire, received, delivered>>

\* The upstream answers the request (whatever its status code: none is checked).
UpstreamAccept(r) ==
    /\ upstream[r] = "connecting"
    /\ upstream' = [upstream EXCEPT ![r] = "open"]
    /\ UNCHANGED <<config, pc, inbound, incoming_data, status, upstream_requests, wire,
                   received, delivered>>

\* The upstream sends one more chunk of its response.
UpstreamSend(r) ==
    /\ upstream[r] = "open"
    /\ Len(wire[r]) < MaxChunks
    /\ wire' = [wire EXCEPT ![r] = Append(@, Chunk(r, Len(@) + 1))]
    /\ UNCHANGED <<config, pc, inbound, incoming_data, status, upstream_requests,
                   upstream, received, delivered>>

\* The upstream ends its response.
UpstreamClose(r) ==
    /\ upstream[r] = "open"
    /\ upstream' = [upstream EXCEPT ![r] = "eof"]
    /\ UNCHANGED <<config, pc, inbound, incoming_data, status, upstream_requests, wire,
                   received, delivered>>

\* The connection to the upstream breaks, before or during the response.
UpstreamFail(r) ==
    /\ upstream[r] \in {"connecting", "open"}
    /\ upstream' = [upstream EXCEPT ![r] = "fault"]
    /\ UNCHANGED <<config, pc, inbound, incoming_data, status, upstream_requests, wire,
                   received, delivered>>

\* Line 94: client.stream(...) returns the response once its headers are in.
Connected(r) ==
    /\ pc[r] = "connecting"
    /\ \/ upstream[r] \in {"open", "eof"}
       \/ upstream[r] = "fault" /\ Len(wire[r]) > 0
    /\ pc' = [pc EXCEPT ![r] = "streaming"]
    /\ UNCHANGED <<config, inbound, incoming_data, status, upstream_requests, upstream,
                   wire, received, delivered>>

\* Line 95: aiter_text() hands over the next chunk (also one that arrived before
\* the connection broke and is still buffered).
ReadChunk(r) ==
    /\ pc[r] = "streaming"
    /\ Len(received[r]) < Len(wire[r])
    /\ received' = [received EXCEPT ![r] = Append(@, NextChunk(r))]
    /\ pc' = [pc EXCEPT ![r] = "yielding"]
    /\ UNCHANGED <<config, inbound, incoming_data, status, upstream_requests, upstream,
                   wire, delivered>>

\* Lines 97-98: the chunk is yielded to the caller's response.
YieldChunk(r) ==
    /\ pc[r] = "yielding"
    /\ delivered' = [delivered EXCEPT ![r] = @ \o Yielded(r)]
    /\ pc' = [pc EXCEPT ![r] = "streaming"]
    /\ UNCHANGED <<config, inbound, incoming_data, status, upstream_requests, upstream,
                   wire, received>>

\* Line 95 with a deadline: the generator returns while the upstream is open.
EndOfStreamTimeout(r) ==
    /\ pc[r] = "streaming"
    /\ Len(received[r]) = Len(wire[r])
    /\ pc' = [pc EXCEPT ![r] = "done"]
    /\ UNCHANGED <<config, inbound, incoming_data, status, upstream_requests, upstream,
                   wire, received, delivered>>

\* Line 95: the upstream response is exhausted; the generator returns and the
\* caller's response ends.
EndOfStream(r) ==
    /\ pc[r] = "streaming"
    /\ upstream[r] = "eof"
    /\ Len(received[r]) = Len(wire[r])
    /\ pc' = [pc EXCEPT ![r] = "done"]
    /\ UNCHANGED <<config, inbound, incoming_data, status, upstream_requests, upstream,
                   wire, received, delivered>>

\* Lines 94-95 with a retry: the fault opens the upstream request again.
StreamFaultRetry(r) ==
    /\ pc[r] \in {"connecting", "streaming"}
    /\ upstream[r] = "fault"
    /\ Len(upstream_requests[r]) < 2
    /\ upstream_requests' =
           [upstream_requests EXCEPT ![r] = Append(@, UpstreamRequest(r))]
    /\ upstream' = [upstream EXCEPT ![r] = "connecting"]
    /\ pc' = [pc EXCEPT ![r] = "connecting"]
    /\ UNCHANGED <<config, inbound, incoming_data, status, wire, received, delivered>>

\* Lines 94-95: the connect or the read raises; nothing catches it, the generator
\* dies and the caller's response is cut.
StreamFault(r) ==
    /\ pc[r] \in {"connecting", "streaming"}
    /\ upstream[r] = "fault"
    /\ pc' = [pc EXCEPT ![r] = "aborted"]
    /\ UNCHANGED <<config, inbound, incoming_data, status, upstream_requests, upstream,
                   wire, received, delivered>>

\* The steps the event loop takes for request r.
ProxyStep(r) ==
    \/ handle_chat_completions(r)
    \/ proxy_stream(r)
    \/ Connected(r)
    \/ ReadChunk(r)
    \/ YieldChunk(r)
    \/ EndOfStream(r)
    \/ StreamFault(r)

\* The steps of request r's upstream.
UpstreamStep(r) ==
    \/ UpstreamAccept(r)
    \/ UpstreamSend(r)
    \/ UpstreamClose(r)
    \/ UpstreamFail(r)

\* Several requests in flight, a few bodies and configurations.
Next ==
    \E r \in Requests :
        \/ \E raw \in FewBodies : Arrive(r, raw)
        \/ ProxyStep(r)
        \/ UpstreamStep(r)

Spec == Init /\ [][Next]_vars

\* The event loop resumes every task that can run (asyncio runs the ready
\* callbacks in turn), and the caller keeps reading its response.
FairSpec == Spec /\ \A r \in Requests : WF_vars(ProxyStep(r))

\* One request, every body and every configuration.
NextRewrite ==
    \/ \E raw \in Bodies : Arrive(1, raw)
    \/ ProxyStep(1)
    \/ UpstreamStep(1)

SpecRewrite == InitRewrite /\ [][NextRewrite]_vars

\* ------------------------------------------------------------------ claims
\* An upstream request was opened for request r.
Forwarded(r) == Len(upstream_requests[r]) > 0
\* The body that request carried.
Out(r) == upstream_requests[r][1].json
\* The dict the caller of request r sent.
In(r) == inbound[r].value
\* Request r's body was read and the handler has run.
Handled(r) == pc[r] \notin {"idle", "json"}

HasFirstMessage(d) == "messages" \in DOMAIN d /\ Len(d["messages"]) > 0

OverwriteConfigured == OVERWRITE_SYSTEM_PROMPT # None /\ OVERWRITE_SYSTEM_PROMPT # ""
AppendConfigured == APPEND_SYSTEM_PROMPT # None /\ APPEND_SYSTEM_PROMPT # ""

\* C1 as stated: with a default model configured, the body forwarded upstream
\* has a model field equal to the default, also when the inbound body has none.
C1_ModelAlwaysDefault ==
    \A r \in Requests :
        (Forwarded(r) /\ MODEL # None) =>
            ("model" \in DOMAIN Out(r) /\ Out(r)["model"] = MODEL)

\* C1 (amended): with a default model configured, a forwarded body whose inbound
\* body has a model field carries the configured default whatever the inbound
\* value; a body that came without a model field is forwarded without one.
C1_ModelDefaultWhenPresent ==
    \A r \in Requests :
        (Forwarded(r) /\ MODEL # None) =>
            IF "model" \in DOMAIN In(r)
            THEN "model" \in DOMAIN Out(r) /\ Out(r)["model"] = MODEL
            ELSE "model" \notin DOMAIN Out(r)

C1_Witness ==
    \E r \in Requests :
        /\ Forwarded(r) /\ MODEL = "llama3"
        /\ "model" \in DOMAIN In(r) /\ In(r)["model"] = "gpt-4"
        /\ Out(r)["model"] = "llama3"

\* C2: with a non-empty overwrite prompt X and a non-empty inbound messages list
\* (of role/content messages), the request is forwarded with the first message's
\* content replaced by X when its role is system (same length, later messages
\* kept), and with {role: system, content: X} prepended otherwise (length + 1,
\* every inbound message kept in order); the append prompt is never applied.
C2_OverwritePrompt ==
    \A r \in Requests :
        (/\ Handled(r) /\ OverwriteConfigured /\ inbound[r].wellformed
         /\ HasFirstMessage(In(r)) /\ "role" \in DOMAIN In(r)["messages"][1]) =>
            /\ pc[r] # "failed"
            /\ Forwarded(r) =>
                LET im == In(r)["messages"]
                    om == Out(r)["messages"]
                IN  IF im[1]["role"] = "system"
                    THEN /\ Len(om) = Len(im)
                         /\ om[1] = SetKey(im[1], "content", OVERWRITE_SYSTEM_PROMPT)
                         /\ \A i \in 2..Len(im) : om[i] = im[i]
                    ELSE /\ Len(om) = Len(im) + 1
                         /\ om[1] = [role |-> "system",
                                     content |-> OVERWRITE_SYSTEM_PROMPT]
                         /\ \A i \in 1..Len(im) : om[i + 1] = im[i]

C2_Witness ==
    \E r \in Requests :
        /\ Forwarded(r) /\ OVERWRITE_SYSTEM_PROMPT = "X" /\ APPEND_SYSTEM_PROMPT = "Y"
        /\ Len(In(r)["messages"]) = 2 /\ In(r)["messages"][1] = Message("user", "old")
        /\ Len(Out(r)["messages"]) = 3

\* C3 as stated: with no overwrite prompt and a non-empty append prompt Y, the
\* forwarded first message's content is the inbound content, one newline
\* character, then Y; the number of messages and the later messages are unchanged.
C3_AppendWithNewline ==
    \A r \in Requests :
        (Forwarded(r) /\ ~OverwriteConfigured /\ AppendConfigured) =>
            LET im == In(r)["messages"]
                om == Out(r)["messages"]
            IN  /\ Len(om) = Len(im)
                /\ om[1]["content"] = im[1]["content"] \o "\n" \o APPEND_SYSTEM_PROMPT
                /\ \A i \in 2..Len(im) : om[i] = im[i]

\* C4: every upstream request carries Authorization: Bearer <key> exactly when
\* API_KEY is configured and non-empty, with the configured key; otherwise it
\* carries no Authorization header.
C4_AuthorizationHeader ==
    \A r \in Requests :
        \A i \in 1..Len(upstream_requests[r]) :
            LET h == upstream_requests[r][i].headers
            IN  /\ "Authorization" \in DOMAIN h <=> (API_KEY # None /\ API_KEY # "")
                /\ "Authorization" \in DOMAIN h =>
                       h["Authorization"] = "Bearer " \o API_KEY

C4_Witness ==
    \E r \in Requests :
        /\ Forwarded(r) /\ API_KEY = "secret"
        /\ upstream_requests[r][1].headers = [Authorization |-> "Bearer secret"]

\* C5: at every point the chunks delivered to the caller are a prefix of the
\* chunks received from the upstream, and when the upstream stream has ended
\* without fault and the response is finished the delivered sequence is the
\* upstream's sequence: same chunks, order and boundaries.
C5_StreamVerbatim ==
    \A r \in Requests :
        /\ IsPrefix(delivered[r], received[r])
        /\ IsPrefix(received[r], wire[r])
        /\ pc[r] = "done" => delivered[r] = wire[r]

C5_Witness ==
    \E r \in Requests : pc[r] = "done" /\ delivered[r] = <<Chunk(r, 1), Chunk(r, 2)>>

\* C6: with several requests in flight, under every interleaving, each caller
\* gets chunks of its own upstream stream only, in order; each upstream request
\* carries the rewrite of its own inbound body; and no step changes the
\* configuration or the state of a request other than the one it belongs to.
C6_Isolation ==
    /\ [](\A r \in Requests :
            /\ IsPrefix(delivered[r], wire[r])
            /\ Forwarded(r) =>
                   /\ Len(upstream_requests[r]) = 1
                   /\ Rewritten(inbound[r]).ok
                   /\ Out(r) = Rewritten(inbound[r]).value)
    /\ [][/\ config' = config
          /\ \A r, q \in Requests :
                 (r # q /\ RequestState(r)' # RequestState(r)) =>
                     RequestState(q)' = RequestState(q)]_vars

C6_Witness ==
    /\ pc[1] = "streaming" /\ pc[2] = "yielding"
    /\ delivered[1] = <<Chunk(1, 1)>> /\ received[2] = <<Chunk(2, 1)>>
    /\ inbound[1] # inbound[2]
    /\ Out(1) # Out(2)

\* The inputs C7 is about: text that is not JSON, or a prompt rewrite configured
\* and a body without messages or without a first message.
Malformed(r) ==
    \/ ~inbound[r].wellformed
    \/ (OverwriteConfigured \/ AppendConfigured) /\ ~HasFirstMessage(In(r))

\* C7: a request whose body is not JSON, or (with a prompt rewrite configured)
\* lacks messages or messages[0], fails as a server error: no upstream request
\* is ever opened for it and no chunk is streamed to the caller.
C7_MalformedFails ==
    \A r \in Requests :
        (Handled(r) /\ Malformed(r)) =>
            /\ pc[r] = "failed" /\ status[r] = 500
            /\ upstream_requests[r] = <<>> /\ upstream[r] = "none"
            /\ received[r] = <<>> /\ delivered[r] = <<>>

C7_Witness ==
    \E r \in Requests :
        /\ pc[r] = "failed" /\ inbound[r].wellformed
        /\ ~OverwriteConfigured /\ APPEND_SYSTEM_PROMPT = "Y"
        /\ "messages" \in DOMAIN In(r) /\ In(r)["messages"] = <<>>

\* C8: when the upstream connection fails, the caller's stream is terminated:
\* what the caller got is exactly what was received before the fault, a prefix
\* of the upstream's sequence; nothing is appended afterwards; and a request
\* never has more than one upstream request.
C8_FaultCutsStream ==
    /\ [](\A r \in Requests :
            /\ Len(upstream_requests[r]) <= 1
            /\ pc[r] = "aborted" =>
                   /\ upstream[r] = "fault"
                   /\ delivered[r] = received[r]
                   /\ IsPrefix(received[r], wire[r]))
    /\ [][\A r \in Requests :
              pc[r] = "aborted" =>
                  /\ pc'[r] = "aborted"
                  /\ delivered'[r] = delivered[r]
                  /\ upstream_requests'[r] = upstream_requests[r]]_vars
    /\ \A r \in Requests : (upstream[r] = "fault") ~> (pc[r] = "aborted")

C8_Witness ==
    \E r \in Requests :
        /\ pc[r] = "aborted" /\ delivered[r] = <<Chunk(r, 1)>> /\ Len(wire[r]) = 2

C10_ModelKeptWithoutDefault ==
    \A r \in Requests :
        (Forwarded(r) /\ MODEL = None) =>
            IF "model" \in DOMAIN In(r)
            THEN "model" \in DOMAIN Out(r) /\ Out(r)["model"] = In(r)["model"]
            ELSE "model" \notin DOMAIN Out(r)

====
